---- MODULE Spec2Model ----
(***************************************************************************)
(* Model of the AI-assisted annotation core of backend/main.py:            *)
(*   _parse_llm_json_response, _fallback_summary_and_category,             *)
(*   generate_summary_and_category and generate_title_and_tags.            *)
(*                                                                         *)
(* A Python str is a sequence of one-character strings.  The raw reply of  *)
(* the language model is a sequence of units [k, v]: the characters of a   *)
(* fence and of prose are single units (k = "ch"), whitespace characters   *)
(* are single units (k = "ws"), and each JSON lexeme (a punctuation sign,  *)
(* a string literal, a number, null) is one unit.  Slicing and stripping   *)
(* only ever cut fence and whitespace characters, so they act on units     *)
(* exactly as the code acts on characters.                                 *)
(***************************************************************************)
EXTENDS Integers, Sequences, FiniteSets, TLC

VARIABLES
    op,                  \* which function is running: "summary" | "title"
    content,             \* argument content
    existing_categories, \* argument existing_categories (summary only)
    configured,          \* truth value of os.getenv("GEMINI_API_KEY")
    pc,                  \* position of the call
    constructed,         \* ChatGoogleGenerativeAI objects built in this call
    invoked,             \* llm.invoke calls issued in this call
    prompt,              \* prompt_template handed to llm.invoke
    response,            \* response.content
    data,                \* outcome of _parse_llm_json_response
    exc,                 \* exception in flight
    result               \* value returned to the caller

vars == <<op, content, existing_categories, configured, pc, constructed,
          invoked, prompt, response, data, exc, result>>

(***************************************************************************)
(* Bounds                                                                  *)
(***************************************************************************)
MaxPad == 52      \* filler characters in a generated content

(***************************************************************************)
(* Python str helpers                                                      *)
(***************************************************************************)
Min(a, b) == IF a < b THEN a ELSE b

\* s[:n]
Prefix(s, n) == SubSeq(s, 1, Min(n, Len(s)))

\* str.lower() restricted to the letters the model's contents use
LowerChar(c) ==
    CASE c = "P" -> "p" [] c = "Y" -> "y" [] c = "T" -> "t"
      [] c = "H" -> "h" [] c = "O" -> "o" [] c = "N" -> "n"
      [] c = "A" -> "a"
      [] OTHER -> c

Lower(s) == [i \in 1..Len(s) |-> LowerChar(s[i])]

\* k in s
IsSubstring(k, s) ==
    \E i \in 0..(Len(s) - Len(k)) : SubSeq(s, i + 1, i + Len(k)) = k

Ellipsis == <<".", ".", ".">>

(***************************************************************************)
(* Python values: every value is a record [t, v], t naming its type.       *)
(*   "text"  a str known character by character (built from content)      *)
(*   "str"   a str decoded from a JSON string literal (kept whole)         *)
(*   "num", "null", "list" (v a sequence), "obj" (v a function from keys)  *)
(*   "tuple" (v a sequence), "none" (no value)                             *)
(***************************************************************************)
Text(s) == [t |-> "text", v |-> s]
JStr(s) == [t |-> "str", v |-> s]
JNum(s) == [t |-> "num", v |-> s]
JNull == [t |-> "null", v |-> "null"]
JList(q) == [t |-> "list", v |-> q]
JObj(f) == [t |-> "obj", v |-> f]
Tuple(q) == [t |-> "tuple", v |-> q]
NoValue == [t |-> "none", v |-> "none"]

(***************************************************************************)
(* _fallback_summary_and_category                                          *)
(***************************************************************************)
SummaryLimit == 50

\* Characters outside ASCII are written by name, one name per character:
\*   ko cho do = コード   hon yaku = 翻訳   you yaku2 = 要約   me cho ru = メール
\*   bu ro gu = ブログ   ma cho ke te i n gu = マーケティング   kyou iku = 教育
\* and the category labels are transliterated (the source's text in comments).

\* categories = ["一般", "テキスト生成", "その他"]
default_categories == <<"Ippan", "TextSeisei", "Sonota">>

keyword_map == <<
    \* "コード": ["プログラミング", "コード生成", "開発"]
    [keyword |-> <<"ko", "cho", "do">>,
     cats |-> <<"Programming", "CodeSeisei", "Kaihatsu">>],
    \* "python": ["プログラミング", "Python", "開発"]
    [keyword |-> <<"p", "y", "t", "h", "o", "n">>,
     cats |-> <<"Programming", "Python", "Kaihatsu">>],
    \* "翻訳": ["翻訳", "言語", "ローカライゼーション"]
    [keyword |-> <<"hon", "yaku">>,
     cats |-> <<"Honyaku", "Gengo", "Localization">>],
    \* "要約": ["要約", "テキスト処理", "分析"]
    [keyword |-> <<"you", "yaku2">>,
     cats |-> <<"Youyaku", "TextShori", "Bunseki">>],
    \* "メール": ["ビジネス", "メール作成", "コミュニケーション"]
    [keyword |-> <<"me", "cho", "ru">>,
     cats |-> <<"Business", "MailSakusei", "Communication">>],
    \* "ブログ": ["ライティング", "ブログ", "コンテンツ作成"]
    [keyword |-> <<"bu", "ro", "gu">>,
     cats |-> <<"Writing", "Blog", "ContentSakusei">>],
    \* "マーケティング": ["マーケティング", "広告", "ビジネス"]
    [keyword |-> <<"ma", "cho", "ke", "te", "i", "n", "gu">>,
     cats |-> <<"Marketing", "Koukoku", "Business">>],
    \* "教育": ["教育", "学習", "チュートリアル"]
    [keyword |-> <<"kyou", "iku">>,
     cats |-> <<"Kyouiku", "Gakushuu", "Tutorial">>] >>

\* variant: the marker is added from the limit on
fallback_summary_at_limit(c) ==
    Prefix(c, SummaryLimit) \o (IF Len(c) >= SummaryLimit THEN Ellipsis ELSE <<>>)

fallback_summary(c) ==
    Prefix(c, SummaryLimit) \o (IF Len(c) > SummaryLimit THEN Ellipsis ELSE <<>>)

\* variant: the loop without its break, the last keyword found wins
RECURSIVE scan_keywords_no_break(_, _)
scan_keywords_no_break(content_lower, i) ==
    IF i > Len(keyword_map) THEN default_categories
    ELSE LET rest == scan_keywords_no_break(content_lower, i + 1) IN
         IF rest # default_categories THEN rest
         ELSE IF IsSubstring(Lower(keyword_map[i].keyword), content_lower)
              THEN keyword_map[i].cats
              ELSE default_categories

\* the for loop over keyword_map.items() with its break
RECURSIVE scan_keywords(_, _)
scan_keywords(content_lower, i) ==
    IF i > Len(keyword_map) THEN default_categories
    ELSE IF IsSubstring(Lower(keyword_map[i].keyword), content_lower)
         THEN keyword_map[i].cats
         ELSE scan_keywords(content_lower, i + 1)

StrList(names) == JList([i \in 1..Len(names) |-> JStr(names[i])])

_fallback_summary_and_category(c) ==
    JObj([summary |-> Text(fallback_summary(c)),
          suggested_categories |-> StrList(scan_keywords(Lower(c), 1))])

(***************************************************************************)
(* generate_title_and_tags: fallback values                                *)
(***************************************************************************)
TitleLimit == 30

\* variant: the marker is added from the limit on
fallback_title_at_limit(c) ==
    IF Len(c) >= TitleLimit THEN Prefix(c, TitleLimit) \o Ellipsis ELSE c

fallback_title(c) ==
    IF Len(c) > TitleLimit THEN Prefix(c, TitleLimit) \o Ellipsis ELSE c

fallback_tags == <<>>

fallback_title_and_tags(c) == Tuple(<<Text(fallback_title(c)), Text(fallback_tags)>>)

(***************************************************************************)
(* Reply text and _parse_llm_json_response                                 *)
(***************************************************************************)
Ch(c) == [k |-> "ch", v |-> c]
Ws(c) == [k |-> "ws", v |-> c]
Punct(c) == [k |-> "punct", v |-> c]
StrLit(s) == [k |-> "str", v |-> s]
NumLit(s) == [k |-> "num", v |-> s]
NullLit == [k |-> "null", v |-> "null"]

IsPunct(u, c) == u.k = "punct" /\ u.v = c

OpenFence == <<Ch("backtick"), Ch("backtick"), Ch("backtick"), Ch("j"), Ch("s"), Ch("o"), Ch("n")>>
CloseFence == <<Ch("backtick"), Ch("backtick"), Ch("backtick")>>

\* str.startswith / str.endswith
StartsWith(s, p) == Len(s) >= Len(p) /\ SubSeq(s, 1, Len(p)) = p
EndsWith(s, p) == Len(s) >= Len(p) /\ SubSeq(s, Len(s) - Len(p) + 1, Len(s)) = p

\* s[n:] and s[:-n]
DropFirst(s, n) == SubSeq(s, n + 1, Len(s))
DropLast(s, n) == SubSeq(s, 1, Len(s) - n)

\* str.strip()
RECURSIVE LStrip(_)
LStrip(s) == IF Len(s) > 0 /\ s[1].k = "ws" THEN LStrip(Tail(s)) ELSE s
RECURSIVE RStrip(_)
RStrip(s) ==
    IF Len(s) > 0 /\ s[Len(s)].k = "ws" THEN RStrip(DropLast(s, 1)) ELSE s
Strip(s) == RStrip(LStrip(s))

\* json.loads: a recursive-descent decoder over the units.  A decoding step
\* yields [ok, val, pos]: the value and the position after it.
ParseOk(val, pos) == [ok |-> TRUE, val |-> val, pos |-> pos]
ParseFail == [ok |-> FALSE, val |-> NoValue, pos |-> 0]

RECURSIVE SkipWs(_, _)
SkipWs(s, i) == IF i <= Len(s) /\ s[i].k = "ws" THEN SkipWs(s, i + 1) ELSE i

RECURSIVE ParseValue(_, _)
RECURSIVE ParseElements(_, _, _)
RECURSIVE ParseMembers(_, _, _)

ParseValue(s, i0) ==
    LET i == SkipWs(s, i0) IN
    IF i > Len(s) THEN ParseFail
    ELSE IF s[i].k = "str" THEN ParseOk(JStr(s[i].v), i + 1)
    ELSE IF s[i].k = "num" THEN ParseOk(JNum(s[i].v), i + 1)
    ELSE IF s[i].k = "null" THEN ParseOk(JNull, i + 1)
    ELSE IF IsPunct(s[i], "[") THEN
        LET j == SkipWs(s, i + 1) IN
        IF j <= Len(s) /\ IsPunct(s[j], "]") THEN ParseOk(JList(<<>>), j + 1)
        ELSE ParseElements(s, i + 1, <<>>)
    ELSE IF IsPunct(s[i], "{") THEN
        LET j == SkipWs(s, i + 1) IN
        IF j <= Len(s) /\ IsPunct(s[j], "}") THEN ParseOk(JObj(<<>>), j + 1)
        ELSE ParseMembers(s, i + 1, <<>>)
    ELSE ParseFail

ParseElements(s, i, acc) ==
    LET r == ParseValue(s, i) IN
    IF ~r.ok THEN ParseFail
    ELSE LET j == SkipWs(s, r.pos) IN
         IF j > Len(s) THEN ParseFail
         ELSE IF IsPunct(s[j], ",") THEN ParseElements(s, j + 1, Append(acc, r.val))
         ELSE IF IsPunct(s[j], "]") THEN ParseOk(JList(Append(acc, r.val)), j + 1)
         ELSE ParseFail

\* a key met twice keeps its last value
ParseMembers(s, i0, acc) ==
    LET i == SkipWs(s, i0) IN
    IF i > Len(s) \/ s[i].k # "str" THEN ParseFail
    ELSE LET c == SkipWs(s, i + 1) IN
         IF c > Len(s) \/ ~IsPunct(s[c], ":") THEN ParseFail
         ELSE LET r == ParseValue(s, c + 1) IN
              IF ~r.ok THEN ParseFail
              ELSE LET j == SkipWs(s, r.pos)
                       acc2 == (s[i].v :> r.val) @@ acc IN
                   IF j > Len(s) THEN ParseFail
                   ELSE IF IsPunct(s[j], ",") THEN ParseMembers(s, j + 1, acc2)
                   ELSE IF IsPunct(s[j], "}") THEN ParseOk(JObj(acc2), j + 1)
                   ELSE ParseFail

\* the whole text must be one value, whitespace around it allowed
json_loads(s) ==
    LET r == ParseValue(s, 1) IN
    IF r.ok /\ SkipWs(s, r.pos) > Len(s)
    THEN [ok |-> TRUE, val |-> r.val]
    ELSE [ok |-> FALSE, val |-> NoValue]

FenceOpenLen == 7
FenceCloseLen == 3

\* variant: the opening marker is cut one character short
_parse_llm_json_response_short_cut(response_content) ==
    LET s0 == Strip(response_content)
        s1 == IF StartsWith(s0, OpenFence) THEN DropFirst(s0, FenceOpenLen - 1) ELSE s0
        s2 == IF EndsWith(s1, CloseFence) THEN DropLast(s1, FenceCloseLen) ELSE s1
    IN json_loads(Strip(s2))

_parse_llm_json_response(response_content) ==
    LET s0 == Strip(response_content)
        s1 == IF StartsWith(s0, OpenFence) THEN DropFirst(s0, FenceOpenLen) ELSE s0
        s2 == IF EndsWith(s1, CloseFence) THEN DropLast(s1, FenceCloseLen) ELSE s1
    IN json_loads(Strip(s2))


(***************************************************************************)
(* Inputs: the arguments of a call and the replies of the language model   *)
(***************************************************************************)
Pad(n) == [i \in 1..n |-> "a"]

Keywords == {keyword_map[i].keyword : i \in 1..Len(keyword_map)}

Fragments ==
    Keywords \cup {<<>>, <<"P", "y", "T", "h", "o", "N">>}

Contents ==
    {Pad(n) : n \in 0..MaxPad} \cup {f \o g : f \in Fragments, g \in Fragments}

CategoryLists == {<<>>, <<"Kaihatsu", "Honyaku">>}

Member(key, val) == <<StrLit(key), Punct(":")>> \o val
Object(members) == <<Punct("{")>> \o members \o <<Punct("}")>>
Str(x) == <<StrLit(x)>>
Comma == <<Punct(",")>>
Nl == <<Ws("\n")>>
Sp == <<Ws(" ")>>

ThreeCats ==
    <<Punct("[")>> \o Str("A") \o Comma \o Sp \o Str("B") \o Comma \o Sp
        \o Str("C") \o <<Punct("]")>>

\* texts that are JSON documents
JsonDocs ==
    { Object(Member("summary", Str("S")) \o Comma \o Sp
                \o Member("suggested_categories", ThreeCats)),
      Object(Member("summary", Str("S"))),
      Object(Member("suggested_categories", ThreeCats)),
      Object(Member("title", Str("T")) \o Comma \o Member("tags", Str("x,y"))),
      Object(Nl \o Member("title", <<NullLit>>) \o Comma \o Nl
                \o Member("tags", <<Punct("["), Punct("]")>>) \o Nl),
      Object(Member("title", Str("T"))),
      Object(Member("tags", Str("x,y"))),
      Object(<<>>),
      <<Punct("["), StrLit("A"), Punct(","), NumLit("1"), Punct("]")>>,
      <<NullLit>> }

\* texts that are not
NonJsonTexts ==
    { <<>>,
      <<Ch("s"), Ch("o"), Ch("r"), Ch("r"), Ch("y")>>,
      <<Punct("{")>> \o Member("title", Str("T")),
      Object(<<>>) \o Sp \o Object(<<>>) }

Bodies == JsonDocs \cup NonJsonTexts

Wrappings ==
    {"bare", "fenced", "fenced_tight", "fenced_padded",
     "double_fenced", "open_only", "plain_fence"}

Wrap(w, d) ==
    CASE w = "bare" -> d
      [] w = "fenced" -> OpenFence \o Nl \o d \o Nl \o CloseFence
      [] w = "fenced_tight" -> OpenFence \o d \o CloseFence
      [] w = "fenced_padded" ->
            Sp \o Nl \o OpenFence \o Nl \o Sp \o d \o Sp \o Nl \o CloseFence \o Nl
      [] w = "double_fenced" ->
            OpenFence \o Nl \o OpenFence \o Nl \o d \o Nl \o CloseFence \o Nl \o CloseFence
      [] w = "open_only" -> OpenFence \o Nl \o d
      [] w = "plain_fence" -> CloseFence \o Nl \o d \o Nl \o CloseFence

Replies == {Wrap(w, d) : w \in Wrappings, d \in Bodies}

(***************************************************************************)
(* State machine of one call                                               *)
(***************************************************************************)
Terminal == {"Returned", "Fallback", "Raised"}

NoData == [ok |-> FALSE, val |-> NoValue]
NoPrompt == [hint |-> "none", categories |-> <<>>, content |-> <<>>]

\* a call has been entered: arguments bound, nothing done yet
Entered(o, c, e, key) ==
    /\ op = o
    /\ content = c
    /\ existing_categories = e
    /\ configured = key
    /\ pc = "Start"
    /\ constructed = 0
    /\ invoked = 0
    /\ prompt = NoPrompt
    /\ response = <<>>
    /\ data = NoData
    /\ exc = "none"
    /\ result = NoValue

\* a call of either function on contents drawn from cs
InitOver(cs) ==
    \/ \E c \in cs, e \in CategoryLists, key \in BOOLEAN :
          Entered("summary", c, e, key)
    \/ \E c \in cs, key \in BOOLEAN : Entered("title", c, <<>>, key)

Init == InitOver(Contents)

\* except Exception: every exception the try block can raise is an Exception
ExceptionKinds ==
    {"ClientError", "InvocationError", "JSONDecodeError", "KeyError", "TypeError"}
\* variant: except json.JSONDecodeError
except_JSONDecodeError(e) == e = "JSONDecodeError"
except_Exception(e) == e \in ExceptionKinds

----------------------------------------------------------------------------
(* generate_summary_and_category *)

\* variant: the key is not looked at
summary_check_key_skipped ==
    /\ pc = "Start" /\ op = "summary"
    /\ pc' = "Configured"
    /\ UNCHANGED <<op, content, existing_categories, configured, constructed,
                   invoked, prompt, response, data, exc, result>>

summary_check_key ==
    /\ pc = "Start" /\ op = "summary"
    /\ IF ~configured
       THEN /\ result' = _fallback_summary_and_category(content)
            /\ pc' = "Fallback"
       ELSE /\ pc' = "Configured"
            /\ UNCHANGED result
    /\ UNCHANGED <<op, content, existing_categories, configured, constructed,
                   invoked, prompt, response, data, exc>>

category_hint(e) == IF Len(e) > 0 THEN "examples" ELSE "no_categories_yet"

\* the client is built, the prompt is formatted and llm.invoke is issued
summary_invoke ==
    /\ pc = "Configured" /\ op = "summary"
    /\ constructed' = constructed + 1
    /\ prompt' = [hint |-> category_hint(existing_categories),
                  categories |-> existing_categories,
                  content |-> content]
    /\ invoked' = invoked + 1
    /\ pc' = "Invoking"
    /\ UNCHANGED <<op, content, existing_categories, configured, response,
                   data, exc, result>>

\* the constructor of the client raises
summary_client_raises ==
    /\ pc = "Configured" /\ op = "summary"
    /\ exc' = "ClientError"
    /\ pc' = "InvokeFailed"
    /\ UNCHANGED <<op, content, existing_categories, configured, constructed,
                   invoked, prompt, response, data, result>>

\* the external service answers
summary_invoke_returns ==
    /\ pc = "Invoking" /\ op = "summary"
    /\ \E raw \in Replies : response' = raw
    /\ pc' = "Extracting"
    /\ UNCHANGED <<op, content, existing_categories, configured, constructed,
                   invoked, prompt, data, exc, result>>

\* the external service fails
summary_invoke_raises ==
    /\ pc = "Invoking" /\ op = "summary"
    /\ exc' = "InvocationError"
    /\ pc' = "InvokeFailed"
    /\ UNCHANGED <<op, content, existing_categories, configured, constructed,
                   invoked, prompt, response, data, result>>

summary_extract ==
    /\ pc = "Extracting" /\ op = "summary"
    /\ data' = _parse_llm_json_response(response)
    /\ IF data'.ok
       THEN pc' = "Parsed" /\ UNCHANGED exc
       ELSE pc' = "ParseFailed" /\ exc' = "JSONDecodeError"
    /\ UNCHANGED <<op, content, existing_categories, configured, constructed,
                   invoked, prompt, response, result>>

\* return data
summary_return ==
    /\ pc = "Parsed" /\ op = "summary"
    /\ result' = data.val
    /\ pc' = "Returned"
    /\ UNCHANGED <<op, content, existing_categories, configured, constructed,
                   invoked, prompt, response, data, exc>>

summary_except ==
    /\ pc \in {"InvokeFailed", "ParseFailed"} /\ op = "summary"
    /\ IF except_Exception(exc)
       THEN /\ result' = _fallback_summary_and_category(content)
            /\ pc' = "Fallback"
       ELSE /\ pc' = "Raised"
            /\ UNCHANGED result
    /\ UNCHANGED <<op, content, existing_categories, configured, constructed,
                   invoked, prompt, response, data, exc>>

----------------------------------------------------------------------------
(* generate_title_and_tags *)

title_check_key ==
    /\ pc = "Start" /\ op = "title"
    /\ IF ~configured
       THEN /\ result' = fallback_title_and_tags(content)
            /\ pc' = "Fallback"
       ELSE /\ pc' = "Configured"
            /\ UNCHANGED result
    /\ UNCHANGED <<op, content, existing_categories, configured, constructed,
                   invoked, prompt, response, data, exc>>

title_invoke ==
    /\ pc = "Configured" /\ op = "title"
    /\ constructed' = constructed + 1
    /\ prompt' = [hint |-> "none", categories |-> <<>>, content |-> content]
    /\ invoked' = invoked + 1
    /\ pc' = "Invoking"
    /\ UNCHANGED <<op, content, existing_categories, configured, response,
                   data, exc, result>>

title_client_raises ==
    /\ pc = "Configured" /\ op = "title"
    /\ exc' = "ClientError"
    /\ pc' = "InvokeFailed"
    /\ UNCHANGED <<op, content, existing_categories, configured, constructed,
                   invoked, prompt, response, data, result>>

title_invoke_returns ==
    /\ pc = "Invoking" /\ op = "title"
    /\ \E raw \in Replies : response' = raw
    /\ pc' = "Extracting"
    /\ UNCHANGED <<op, content, existing_categories, configured, constructed,
                   invoked, prompt, data, exc, result>>

title_invoke_raises ==
    /\ pc = "Invoking" /\ op = "title"
    /\ exc' = "InvocationError"
    /\ pc' = "InvokeFailed"
    /\ UNCHANGED <<op, content, existing_categories, configured, constructed,
                   invoked, prompt, response, data, result>>

title_extract ==
    /\ pc = "Extracting" /\ op = "title"
    /\ data' = _parse_llm_json_response(response)
    /\ IF data'.ok
       THEN pc' = "Parsed" /\ UNCHANGED exc
       ELSE pc' = "ParseFailed" /\ exc' = "JSONDecodeError"
    /\ UNCHANGED <<op, content, existing_categories, configured, constructed,
                   invoked, prompt, response, result>>

\* data[key]: [ok, val, exc]
subscript(d, key) ==
    IF d.t # "obj" THEN [ok |-> FALSE, val |-> NoValue, exc |-> "TypeError"]
    ELSE IF key \notin DOMAIN d.v
         THEN [ok |-> FALSE, val |-> NoValue, exc |-> "KeyError"]
         ELSE [ok |-> TRUE, val |-> d.v[key], exc |-> "none"]

\* variant: data.get("tags", "") in place of data["tags"]
title_return_value_get(d) ==
    LET ti == subscript(d, "title")
        ta == subscript(d, "tags") IN
    IF ~ti.ok THEN ti
    ELSE [ok |-> TRUE,
          val |-> Tuple(<<ti.val, IF ta.ok THEN ta.val ELSE Text(fallback_tags)>>),
          exc |-> "none"]

\* return data["title"], data["tags"]
title_return_value(d) ==
    LET ti == subscript(d, "title")
        ta == subscript(d, "tags") IN
    IF ~ti.ok THEN ti
    ELSE IF ~ta.ok THEN ta
    ELSE [ok |-> TRUE, val |-> Tuple(<<ti.val, ta.val>>), exc |-> "none"]

title_return ==
    /\ pc = "Parsed" /\ op = "title"
    /\ LET r == title_return_value(data.val) IN
       IF r.ok
       THEN /\ result' = r.val
            /\ pc' = "Returned"
            /\ UNCHANGED exc
       ELSE /\ exc' = r.exc
            /\ pc' = "ParseFailed"
            /\ UNCHANGED result
    /\ UNCHANGED <<op, content, existing_categories, configured, constructed,
                   invoked, prompt, response, data>>

\* variant: a failed invocation is tried once more
title_except_retry ==
    /\ pc \in {"InvokeFailed", "ParseFailed"} /\ op = "title"
    /\ IF exc = "InvocationError" /\ invoked < 2
       THEN /\ invoked' = invoked + 1
            /\ pc' = "Invoking"
            /\ UNCHANGED result
       ELSE /\ result' = fallback_title_and_tags(content)
            /\ pc' = "Fallback"
            /\ UNCHANGED invoked
    /\ UNCHANGED <<op, content, existing_categories, configured, constructed,
                   prompt, response, data, exc>>

title_except ==
    /\ pc \in {"InvokeFailed", "ParseFailed"} /\ op = "title"
    /\ IF except_Exception(exc)
       THEN /\ result' = fallback_title_and_tags(content)
            /\ pc' = "Fallback"
       ELSE /\ pc' = "Raised"
            /\ UNCHANGED result
    /\ UNCHANGED <<op, content, existing_categories, configured, constructed,
                   invoked, prompt, response, data, exc>>

----------------------------------------------------------------------------
\* the steps the program itself takes
ProgramStep ==
    \/ summary_check_key \/ summary_invoke \/ summary_extract
    \/ summary_return \/ summary_except
    \/ title_check_key \/ title_invoke \/ title_extract
    \/ title_return \/ title_except

Next ==
    \/ summary_check_key
    \/ summary_invoke
    \/ summary_client_raises
    \/ summary_invoke_returns
    \/ summary_invoke_raises
    \/ summary_extract
    \/ summary_return
    \/ summary_except
    \/ title_check_key
    \/ title_invoke
    \/ title_client_raises
    \/ title_invoke_returns
    \/ title_invoke_raises
    \/ title_extract
    \/ title_return
    \/ title_except

Spec == Init /\ [][Next]_vars

\* The interpreter runs every step of the program that is enabled; nothing
\* obliges the external service to answer.
LivenessContents == {<<>>, <<"kyou", "iku">>, Pad(MaxPad)}

FairSpec == InitOver(LivenessContents) /\ [][Next]_vars /\ WF_vars(ProgramStep)

TypeOK ==
    /\ op \in {"summary", "title"}
    /\ pc \in {"Start", "Configured", "Invoking", "Extracting",
               "Parsed", "ParseFailed", "InvokeFailed"} \cup Terminal
    /\ configured \in BOOLEAN
    /\ constructed \in 0..1
    /\ invoked \in 0..1


(***************************************************************************)
(* Properties                                                              *)
(***************************************************************************)
Ended == pc \in {"Returned", "Fallback"}

fallback_of(o, c) ==
    IF o = "summary" THEN _fallback_summary_and_category(c)
    ELSE fallback_title_and_tags(c)

\* C1 (totality): no call of either function ends with an exception reaching
\* the caller, and a call that has ended has returned a value, whether the key
\* is set or not and whether the client, the invocation, the extraction or
\* the field lookup fails.
C1_Totality == pc # "Raised" /\ (Ended => result.t # "none")

C1_Witness == op = "title" /\ pc = "Fallback" /\ exc = "TypeError"

\* C2 (no-config short-circuit): in a call made without the key no client is
\* built and llm.invoke is never issued, and the call ends with the fallback
\* result of its function.
C2_NoConfigShortCircuit ==
    ~configured =>
        /\ constructed = 0
        /\ invoked = 0
        /\ pc \in {"Start", "Fallback"}
        /\ (pc = "Fallback" => result = fallback_of(op, content))

C2_Witness == op = "summary" /\ ~configured /\ pc = "Fallback"

HasTitleAndTags ==
    /\ data.ok
    /\ data.val.t = "obj"
    /\ {"title", "tags"} \subseteq DOMAIN data.val.v

\* C3: a call of generate_title_and_tags with the key set that ended after the
\* client or the invocation raised, the reply failed extraction, or the
\* document lacks title or tags returned exactly the fallback pair; otherwise
\* both fields are the model's.  No pair mixes the two.
C3_TitleFallbackExact ==
    (op = "title" /\ configured /\ Ended) =>
        IF HasTitleAndTags
        THEN result = Tuple(<<data.val.v["title"], data.val.v["tags"]>>)
        ELSE result = fallback_title_and_tags(content)

C3_Witness ==
    /\ op = "title" /\ pc = "Fallback" /\ exc = "KeyError"
    /\ data.ok /\ data.val.t = "obj" /\ "title" \in DOMAIN data.val.v

WellFormedCategorySuggestion(r) ==
    /\ r.t = "obj"
    /\ {"summary", "suggested_categories"} \subseteq DOMAIN r.v
    /\ r.v["summary"].t \in {"str", "text"}
    /\ r.v["suggested_categories"].t = "list"

\* C4: every value returned by generate_summary_and_category is a well-formed
\* category suggestion: an object with a summary and a sequence
\* suggested_categories; a reply without them yields the fallback result.
C4_SummaryWellFormed ==
    (op = "summary" /\ Ended) =>
        /\ WellFormedCategorySuggestion(result)
        /\ (~WellFormedCategorySuggestion(data.val) =>
                result = _fallback_summary_and_category(content))

\* C5 (bounded response): every call that has started eventually ends,
\* returned or fallen back, even when the external service never answers.
C5_BoundedResponse == (pc = "Start") ~> Ended

\* the order of the keywords as the claim lists it
ClaimKeywordOrder == <<
    <<"ko", "cho", "do">>, <<"p", "y", "t", "h", "o", "n">>, <<"hon", "yaku">>,
    <<"you", "yaku2">>, <<"me", "cho", "ru">>, <<"bu", "ro", "gu">>,
    <<"ma", "cho", "ke", "te", "i", "n", "gu">>, <<"kyou", "iku">> >>

TripleOf(kw) ==
    (CHOOSE i \in 1..Len(keyword_map) : keyword_map[i].keyword = kw) 

\* C6 (keyword precedence): the categories of a fallback result are the triple
\* of the first keyword of the fixed order that occurs in the case-folded
\* content, wherever it stands in the text, the default triple when none
\* occurs, and always three of them.
C6_KeywordPrecedence ==
    (op = "summary" /\ pc = "Fallback") =>
        LET folded == Lower(content)
            hits == {i \in 1..Len(ClaimKeywordOrder) :
                        IsSubstring(ClaimKeywordOrder[i], folded)}
            cats == result.v["suggested_categories"]
        IN /\ cats.t = "list"
           /\ Len(cats.v) = 3
           /\ IF hits = {}
              THEN cats = StrList(<<"Ippan", "TextSeisei", "Sonota">>)
              ELSE \E i \in hits :
                     /\ \A j \in hits : i <= j
                     /\ cats = StrList(keyword_map[TripleOf(ClaimKeywordOrder[i])].cats)

C6_Witness ==
    /\ op = "summary" /\ pc = "Fallback"
    /\ content = <<"hon", "yaku", "P", "y", "T", "h", "o", "N">>
    /\ result.v["suggested_categories"] = StrList(<<"Programming", "Python", "Kaihatsu">>)

\* C7 (summary truncation): the summary of a fallback result is content itself
\* up to 50 characters and its first 50 characters plus "..." beyond.
C7_SummaryTruncation ==
    (op = "summary" /\ pc = "Fallback") =>
        LET sm == result.v["summary"] IN
        /\ sm.t = "text"
        /\ (Len(content) <= 50 => sm.v = content)
        /\ (Len(content) > 50 =>
                /\ Len(sm.v) = 53
                /\ SubSeq(sm.v, 1, 50) = SubSeq(content, 1, 50)
                /\ SubSeq(sm.v, 51, 53) = <<".", ".", ".">>)

C7_Witness ==
    /\ op = "summary" /\ pc = "Fallback" /\ Len(content) = 51
    /\ Len(result.v["summary"].v) = 53

\* C8 (title truncation): the fallback title is content itself up to 30
\* characters and its first 30 characters plus "..." (33 characters) beyond;
\* the fallback tags are the empty string.
C8_TitleTruncation ==
    (op = "title" /\ pc = "Fallback") =>
        LET ti == result.v[1]
            ta == result.v[2] IN
        /\ result.t = "tuple"
        /\ ti.t = "text"
        /\ (Len(content) <= 30 => ti.v = content)
        /\ (Len(content) > 30 =>
                /\ Len(ti.v) = 33
                /\ SubSeq(ti.v, 1, 30) = SubSeq(content, 1, 30)
                /\ SubSeq(ti.v, 31, 33) = <<".", ".", ".">>)
        /\ ta = Text(<<>>)

C8_Witness ==
    /\ op = "title" /\ pc = "Fallback" /\ Len(content) = 31
    /\ Len(result.v[1].v) = 33

\* the extraction of the reply has run
Extracted ==
    \/ pc \in {"Parsed", "Returned"}
    \/ pc \in {"ParseFailed", "Fallback"}
         /\ exc \in {"JSONDecodeError", "KeyError", "TypeError"}

FencedWrappings == {"fenced", "fenced_tight", "fenced_padded"}

\* C9 (extraction tolerance): a JSON document between one opening and one
\* closing fence, whitespace around them or not, is extracted to the value of
\* the document alone; a document inside two pairs of fences loses only the
\* outer pair and fails to parse; text that is not JSON fails to parse.
C9_ExtractionTolerance ==
    Extracted =>
        /\ \A d \in JsonDocs, w \in FencedWrappings :
              response = Wrap(w, d) =>
                  data.ok /\ data = _parse_llm_json_response(d)
        /\ \A d \in JsonDocs :
              response = Wrap("double_fenced", d) => ~data.ok
        /\ \A d \in NonJsonTexts, w \in FencedWrappings \cup {"bare"} :
              response = Wrap(w, d) => ~data.ok

C9_Witness ==
    /\ Extracted
    /\ response = Wrap("fenced_padded", Object(Member("title", Str("T"))))
    /\ data = [ok |-> TRUE, val |-> JObj([title |-> JStr("T")])]

\* C10 (single attempt): llm.invoke is issued at most once in a call and only
\* from Configured; extraction starts only after the invocation returned; a
\* model-derived result is returned only after the extraction succeeded; the
\* fallback is returned only when the key is missing, the invocation failed or
\* the extraction failed; nothing leads back to Invoking.
C10_SingleAttempt ==
    [][ /\ invoked' <= 1
        /\ (invoked' # invoked /\ pc' # "Start") =>
              (invoked = 0 /\ pc = "Configured" /\ pc' = "Invoking")
        /\ (pc' = "Invoking" /\ pc # "Invoking") => pc = "Configured"
        /\ (pc' = "Extracting" /\ pc # "Extracting") =>
              (pc = "Invoking" /\ invoked = 1)
        /\ (pc' = "Returned" /\ pc # "Returned") => (pc = "Parsed" /\ data.ok)
        /\ (pc' = "Fallback" /\ pc # "Fallback") =>
              \/ pc = "Start" /\ ~configured
              \/ pc \in {"InvokeFailed", "ParseFailed"}
      ]_vars

C10_Witness == pc = "Fallback" /\ exc = "InvocationError" /\ invoked = 1

====
